---- MODULE Spec2Model ----
(***************************************************************************)
(* Connection manager of the mongo PHP driver (mcon/manager.c).            *)
(*                                                                         *)
(* The manager owns a singly linked registry of (hash, connection) items.  *)
(* mongo_get_read_write_connection dispatches on the deployment type,      *)
(* single-acquires every seed, runs topology discovery for replica sets    *)
(* and selects one registered connection.  The wire level collaborators    *)
(* (create, getnonce/authenticate, ping, ismaster) and the read preference *)
(* selection live outside manager.c; their outcomes are drawn              *)
(* nondeterministically, as described in the specification document.       *)
(***************************************************************************)
EXTENDS Integers, Sequences, FiniteSets, TLC

(* ---------------------------------------------------------------------- *)
(* Bounds and small input sets                                             *)
(* ---------------------------------------------------------------------- *)

\* Number of connections mongo_connection_create hands out in one run; past
\* it every create fails (a connect failure).
MaxCreates == 2

\* Longest seed list a caller passes in.
MaxSeeds == 2

\* Longest host list one ismaster reply carries.
MaxFound == 2

\* Number of connections a caller of the registry interface creates.
MaxRegistered == 4

Hosts == {"a:1", "b:1"}

NodeTypes == {"Primary", "Secondary", "Standalone"}

PingTimes == {5, 25}

LatencyThreshold == 15

RPTypes == {"Primary", "PrimaryPreferred", "Secondary", "SecondaryPreferred", "Nearest"}

ConTypes == {"STANDALONE", "REPLSET", "MULTIPLE", "UNKNOWN"}

NULL == 0

NoError == [text |-> "", parts |-> <<>>]

NoCandidates == [text |-> "No candidate servers found", parts |-> <<>>]

UnknownType ==
    [text |-> "mongo_get_read_write_connection: Unknown connection type requested",
     parts |-> <<>>]

SeqsUpTo(S, n) == UNION {[1..k -> S] : k \in 0..n}

Min(S) == CHOOSE x \in S : \A y \in S : x <= y

Range(f) == {f[k] : k \in DOMAIN f}

(* ---------------------------------------------------------------------- *)
(* State                                                                   *)
(* ---------------------------------------------------------------------- *)

VARIABLES
    env,             \* the deployment the run talks to (fixed by Init)
    connections,     \* manager->connections: the registry, in list order
    cons,            \* every connection ever created: cons[id]
    pc,              \* position of the caller inside the public API
    servers,         \* the mongo_servers the running acquisition works on
    connection_flags,\* the flag bits of the running acquisition, as a set
    i,               \* loop index over servers->server (1-based)
    j,               \* loop index over found_hosts (1-based)
    found_hosts,     \* host list of the last ismaster reply
    res,             \* result of the last ismaster call (-1: none yet)
    found_connected_server,
    messages,        \* mcon_str of per-seed failures (multiple/standalone)
    con,             \* connection the acquisition returns (NULL = none)
    error_message,   \* *error_message as the caller sees it
    hist,            \* observations of the running acquisition
    destroy_order    \* order in which mongo_deinit destroyed connections

vars == <<env, connections, cons, pc, servers, connection_flags, i, j, found_hosts,
          res, found_connected_server, messages, con, error_message, hist,
          destroy_order>>

(* ---------------------------------------------------------------------- *)
(* Server identity                                                         *)
(* ---------------------------------------------------------------------- *)

\* host:port plus, when credentials are present, db and hashed password.
mongo_server_create_hash(server) ==
    IF server.cred THEN <<server.host, "db/user/pwhash">> ELSE <<server.host>>

\* if (server[0]->username && server[0]->password) auth_hash = hashed password
auth_hash_of(server) == server.cred

\* A connection hash carries the caller's auth hash (or none, like the caller).
hash_has_auth(hash, auth_hash) == (Len(hash) = 2) = auth_hash

(* ---------------------------------------------------------------------- *)
(* Connection primitive                                                    *)
(* ---------------------------------------------------------------------- *)

IsAlive(cs, c) == c \in 1..Len(cs) /\ cs[c].destroyed = 0

\* create: a fresh session, not registered.
mongo_connection_create(cs, hash, type) ==
    Append(cs, [hash |-> hash, type |-> type, destroyed |-> 0])

\* destroy: closes the transport and frees the hash; counted so a second
\* destroy is visible.
mongo_connection_destroy(cs, c) ==
    [cs EXCEPT ![c].destroyed = @ + 1, ![c].type = "Standalone", ![c].hash = <<>>]

(* ---------------------------------------------------------------------- *)
(* Connection registry                                                     *)
(* ---------------------------------------------------------------------- *)

mongo_manager_connection_find_by_hash(conns, hash) ==
    LET idx == {k \in 1..Len(conns) : conns[k].hash = hash}
    IN  IF idx = {} THEN NULL ELSE conns[Min(idx)].connection

mongo_manager_connection_register(conns, cs, c) ==
    Append(conns, [hash |-> cs[c].hash, connection |-> c])

RemoveAt(s, k) == [n \in 1..(Len(s) - 1) |-> IF n < k THEN s[n] ELSE s[n + 1]]

\* deregister that forgets to unlink the item when it is the list head.
deregister_keeps_head(conns, cs, c) ==
    LET idx == {k \in 1..Len(conns) : conns[k].hash = cs[c].hash}
    IN  IF idx = {} THEN [ret |-> 0, connections |-> conns, cons |-> cs]
        ELSE [ret |-> 1,
              connections |-> IF Min(idx) = 1 THEN conns ELSE RemoveAt(conns, Min(idx)),
              cons |-> mongo_connection_destroy(cs, c)]

\* unlinks the first item whose hash equals con->hash, destroys con.
mongo_manager_connection_deregister(conns, cs, c) ==
    LET idx == {k \in 1..Len(conns) : conns[k].hash = cs[c].hash}
    IN  IF idx = {} THEN [ret |-> 0, connections |-> conns, cons |-> cs]
        ELSE [ret |-> 1,
              connections |-> RemoveAt(conns, Min(idx)),
              cons |-> mongo_connection_destroy(cs, c)]

(* ---------------------------------------------------------------------- *)
(* Single-connection acquire                                               *)
(* ---------------------------------------------------------------------- *)

\* What the collaborators answer during one single-acquire: whether create
\* opens a session, how getnonce/authenticate end, whether the ping passes
\* (a real probe or a success skipped by the ping interval) and the node type
\* of a new session.
Outcomes ==
    [create : BOOLEAN, auth : {"ok", "nonce_failed", "auth_failed"},
     ping : BOOLEAN, type : NodeTypes]

\* con: the connection returned; err: the error text; pinged: connections
\* that passed a ping; creates: calls of mongo_connection_create; calls: the
\* collaborators and registry functions called, in call order.
Acquired(conns, cs, c, err, pinged, creates, calls) ==
    [connections |-> conns, cons |-> cs, con |-> c, err |-> err,
     pinged |-> pinged, creates |-> creates, calls |-> calls]

\* nonce = getnonce(); if (!nonce) return 0; return authenticate(nonce)
authenticate_connection(o) == o.auth = "ok"

\* single-acquire that registers a new connection without looking at the
\* result of the registry lookup.
single_always_creates(conns, cs, server, dont_connect, o) ==
    LET hash  == mongo_server_create_hash(server)
        cs1   == mongo_connection_create(cs, hash, o.type)
        new   == Len(cs1)
    IN  IF ~dont_connect /\ o.create /\ o.ping
        THEN Acquired(mongo_manager_connection_register(conns, cs1, new), cs1,
                      new, "", {new}, 1, <<>>)
        ELSE Acquired(conns, cs, NULL, "create", {}, 0, <<>>)

\* single-acquire that registers a new connection without pinging it.
single_skips_ping(conns, cs, server, dont_connect, o) ==
    LET hash  == mongo_server_create_hash(server)
        found == mongo_manager_connection_find_by_hash(conns, hash)
        cs1   == mongo_connection_create(cs, hash, o.type)
        new   == Len(cs1)
    IN  IF found = NULL /\ ~dont_connect
        THEN IF ~o.create
             THEN Acquired(conns, cs, NULL, "create", {}, 1, <<>>)
             ELSE Acquired(mongo_manager_connection_register(conns, cs1, new),
                           cs1, new, "", {}, 1, <<>>)
        ELSE Acquired(conns, cs, found, "", {}, 0, <<>>)

\* single-acquire that registers the new connection before its ping and
\* leaves the entry behind when the ping fails.
single_registers_before_ping(conns, cs, server, dont_connect, o) ==
    LET hash  == mongo_server_create_hash(server)
        found == mongo_manager_connection_find_by_hash(conns, hash)
        cs1   == mongo_connection_create(cs, hash, o.type)
        new   == Len(cs1)
    IN  IF found = NULL /\ ~dont_connect
        THEN IF ~o.create
             THEN Acquired(conns, cs, NULL, "create", {}, 1, <<>>)
             ELSE IF ~o.ping
                  THEN Acquired(mongo_manager_connection_register(conns, cs1, new),
                                mongo_connection_destroy(cs1, new), NULL, "ping",
                                {}, 1, <<>>)
                  ELSE Acquired(mongo_manager_connection_register(conns, cs1, new),
                                cs1, new, "", {new}, 1, <<>>)
        ELSE Acquired(conns, cs, found, "", {}, 0, <<>>)

\* single-acquire that forgets to destroy the connection whose ping failed.
single_leaks_on_ping_failure(conns, cs, server, dont_connect, o) ==
    LET hash  == mongo_server_create_hash(server)
        found == mongo_manager_connection_find_by_hash(conns, hash)
        cs1   == mongo_connection_create(cs, hash, o.type)
        new   == Len(cs1)
    IN  IF found = NULL /\ ~dont_connect
        THEN IF ~o.create
             THEN Acquired(conns, cs, NULL, "create", {}, 1, <<>>)
             ELSE IF ~o.ping
                  THEN Acquired(conns, cs1, NULL, "ping", {}, 1, <<>>)
                  ELSE Acquired(mongo_manager_connection_register(conns, cs1, new),
                                cs1, new, "", {new}, 1, <<>>)
        ELSE Acquired(conns, cs, found, "", {}, 0, <<>>)

\* single-acquire that does not look at the DONT_CONNECT bit.
single_ignores_dont_connect(conns, cs, server, dont_connect, o) ==
    LET hash  == mongo_server_create_hash(server)
        found == mongo_manager_connection_find_by_hash(conns, hash)
        cs1   == mongo_connection_create(cs, hash, o.type)
        new   == Len(cs1)
        dereg == mongo_manager_connection_deregister(conns, cs, found)
    IN  IF found = NULL
        THEN IF ~o.create
             THEN Acquired(conns, cs, NULL, "create", {}, 1, <<>>)
             ELSE IF (server.cred /\ ~authenticate_connection(o)) \/ ~o.ping
                  THEN Acquired(conns, mongo_connection_destroy(cs1, new), NULL,
                                "ping", {}, 1, <<>>)
                  ELSE Acquired(
                           mongo_manager_connection_register(conns, cs1, new),
                           cs1, new, "", {new}, 1, <<>>)
        ELSE IF ~o.ping
             THEN Acquired(dereg.connections, dereg.cons, NULL, "ping", {}, 0, <<>>)
             ELSE Acquired(conns, cs, found, "", {found}, 0, <<>>)

\* single-acquire that pings the new connection before it authenticates.
single_pings_before_authenticate(conns, cs, server, dont_connect, o) ==
    LET hash  == mongo_server_create_hash(server)
        found == mongo_manager_connection_find_by_hash(conns, hash)
        cs1   == mongo_connection_create(cs, hash, o.type)
        new   == Len(cs1)
        auth  == IF ~server.cred THEN <<>>
                 ELSE IF o.auth = "nonce_failed" THEN <<"getnonce">>
                 ELSE <<"getnonce", "authenticate">>
    IN  IF found = NULL /\ ~dont_connect
        THEN IF ~o.create
             THEN Acquired(conns, cs, NULL, "create", {}, 1, <<"create">>)
             ELSE IF ~o.ping
                  THEN Acquired(conns, mongo_connection_destroy(cs1, new), NULL,
                                "ping", {}, 1, <<"create", "ping", "destroy">>)
                  ELSE IF server.cred /\ ~authenticate_connection(o)
                       THEN Acquired(conns, mongo_connection_destroy(cs1, new),
                                     NULL, o.auth, {}, 1,
                                     <<"create", "ping">> \o auth \o <<"destroy">>)
                       ELSE Acquired(
                                mongo_manager_connection_register(conns, cs1, new),
                                cs1, new, "", {new}, 1,
                                <<"create", "ping">> \o auth \o <<"register">>)
        ELSE Acquired(conns, cs, found, "", {}, 0, <<>>)

\* single-acquire that leaves a found connection whose ping failed in the
\* registry.
single_keeps_entry_on_ping_failure(conns, cs, server, dont_connect, o) ==
    LET hash  == mongo_server_create_hash(server)
        found == mongo_manager_connection_find_by_hash(conns, hash)
        cs1   == mongo_connection_create(cs, hash, o.type)
        new   == Len(cs1)
    IN  IF found = NULL /\ ~dont_connect
        THEN IF ~o.create \/ ~o.ping
             THEN Acquired(conns, cs, NULL, "create", {}, 1, <<"create">>)
             ELSE Acquired(mongo_manager_connection_register(conns, cs1, new),
                           cs1, new, "", {new}, 1, <<"create", "ping", "register">>)
        ELSE IF ~dont_connect
             THEN IF ~o.ping
                  THEN Acquired(conns, cs, NULL, "ping", {}, 0, <<"ping">>)
                  ELSE Acquired(conns, cs, found, "", {found}, 0, <<"ping">>)
             ELSE Acquired(conns, cs, found, "", {}, 0, <<>>)

mongo_get_connection_single(conns, cs, server, dont_connect, o) ==
    LET hash  == mongo_server_create_hash(server)
        found == mongo_manager_connection_find_by_hash(conns, hash)
        cs1   == mongo_connection_create(cs, hash, o.type)
        new   == Len(cs1)
        dereg == mongo_manager_connection_deregister(conns, cs, found)
        auth  == IF ~server.cred THEN <<>>
                 ELSE IF o.auth = "nonce_failed" THEN <<"getnonce">>
                 ELSE <<"getnonce", "authenticate">>
    IN  IF found = NULL /\ ~dont_connect
        THEN IF ~o.create
             THEN Acquired(conns, cs, NULL, "create", {}, 1, <<"create">>)
             ELSE IF server.cred /\ ~authenticate_connection(o)
                  THEN Acquired(conns, mongo_connection_destroy(cs1, new), NULL,
                                o.auth, {}, 1, <<"create">> \o auth \o <<"destroy">>)
                  ELSE IF ~o.ping
                       THEN Acquired(conns, mongo_connection_destroy(cs1, new),
                                     NULL, "ping", {}, 1,
                                     <<"create">> \o auth \o <<"ping", "destroy">>)
                       ELSE Acquired(
                                mongo_manager_connection_register(conns, cs1, new),
                                cs1, new, "", {new}, 1,
                                <<"create">> \o auth \o <<"ping", "register">>)
        ELSE IF ~dont_connect
             THEN IF ~o.ping
                  THEN Acquired(dereg.connections, dereg.cons, NULL, "ping", {}, 0,
                                <<"ping", "deregister">>)
                  ELSE Acquired(conns, cs, found, "", {found}, 0, <<"ping">>)
             ELSE Acquired(conns, cs, found, "", {}, 0, <<>>)

(* ---------------------------------------------------------------------- *)
(* Candidate selection (read_preference)                                   *)
(* ---------------------------------------------------------------------- *)

TypeMatches(rp_type, node_type) ==
    CASE rp_type = "Primary"   -> node_type = "Primary"
      [] rp_type = "Secondary" -> node_type = "Secondary"
      [] OTHER                 -> node_type \in {"Primary", "Secondary"}

\* Phase 1: scan the whole registry; keep the connections whose hash carries
\* the caller's auth hash and whose type fits the read preference.  The tag
\* set list is empty, so every connection passes the tag filter.
mongo_find_candidate_servers(conns, cs, rp_type, auth_hash) ==
    SelectSeq([k \in 1..Len(conns) |-> conns[k].connection],
              LAMBDA c : /\ hash_has_auth(cs[c].hash, auth_hash)
                         /\ TypeMatches(rp_type, cs[c].type))

RECURSIVE InsertByPing(_, _, _)
InsertByPing(sorted, c, ping_ms) ==
    IF sorted = <<>> THEN <<c>>
    ELSE IF ping_ms[Head(sorted)] <= ping_ms[c]
         THEN <<Head(sorted)>> \o InsertByPing(Tail(sorted), c, ping_ms)
         ELSE <<c>> \o sorted

\* Phase 2: stable sort by ping_ms, ascending.
RECURSIVE mongo_sort_servers(_, _)
mongo_sort_servers(col, ping_ms) ==
    IF col = <<>> THEN <<>>
    ELSE InsertByPing(mongo_sort_servers(SubSeq(col, 1, Len(col) - 1), ping_ms),
                      col[Len(col)], ping_ms)

\* Phase 3: latency window, with the preferred role kept alone when present.
mongo_select_nearest_servers(col, cs, ping_ms, rp_type) ==
    LET window == SelectSeq(col, LAMBDA c : ping_ms[c] <= ping_ms[col[1]] + LatencyThreshold)
        prim   == SelectSeq(col, LAMBDA c : cs[c].type = "Primary")
        sec    == SelectSeq(col, LAMBDA c : cs[c].type = "Secondary")
    IN  IF col = <<>> THEN <<>>
        ELSE IF rp_type = "PrimaryPreferred" /\ prim # <<>> THEN prim
        ELSE IF rp_type = "SecondaryPreferred" /\ sec # <<>> THEN sec
        ELSE window

\* Phase 4: one survivor, chosen at random: the set of possible picks.
mongo_pick_server_from_set(col) == Range(col)

\* mongo_read_preference_copy: the copy carries the same type.
mongo_read_preference_copy(rp) == [type |-> rp.type]

\* replica set selection that filters with the caller's preference even for
\* a write.
replicaset_filter_ignores_write(rp, write) == [filter |-> rp, kept |-> rp]

\* replica set selection that forces Nearest as the multiple path does.
replicaset_filter_forces_nearest(rp, write) ==
    [filter |-> [mongo_read_preference_copy(rp) EXCEPT !.type = "Nearest"], kept |-> rp]

\* The replica set path: for a write the filter gets tmp_rp, a copy of
\* servers->read_pref with type forced to Primary; for a read it gets
\* servers->read_pref.  kept: servers->read_pref after the statement.
replicaset_filter_rp(rp, write) ==
    IF write
    THEN [filter |-> [mongo_read_preference_copy(rp) EXCEPT !.type = "Primary"],
          kept |-> rp]
    ELSE [filter |-> rp, kept |-> rp]

\* The multiple/standalone path: the filter gets a copy forced to Nearest.
multiple_filter_rp(rp) ==
    [filter |-> [mongo_read_preference_copy(rp) EXCEPT !.type = "Nearest"], kept |-> rp]

\* filter -> sort -> truncate -> pick; sort, truncate and pick are handed
\* servers->read_pref, the filter the preference in filter_rp.  ping_ms is the
\* round trip each registered connection measured at its last real ping.
Selection(conns, cs, ping_ms, filter_rp, rp, auth_hash) ==
    LET collection == mongo_find_candidate_servers(conns, cs, filter_rp.type, auth_hash)
    IN  mongo_pick_server_from_set(
            mongo_select_nearest_servers(mongo_sort_servers(collection, ping_ms),
                                         cs, ping_ms, rp.type))

(* ---------------------------------------------------------------------- *)
(* Init                                                                    *)
(* ---------------------------------------------------------------------- *)

\* servers->read_pref and the WRITE bit are read by the selection step alone,
\* at the end of an acquisition: the values the caller passed are drawn where
\* the code first reads them, and read "unread" / absent until then.
Unread == [type |-> "unread"]

NoServers == [server |-> <<>>, con_type |-> "UNKNOWN", read_pref |-> Unread]

NoFlags == {}

\* start/disc_start: number of connections created before the acquisition /
\* before its discovery began; rp_passed: the read preference type the
\* caller passed, once it has been read; pinged: connections that passed a ping in this acquisition;
\* create_called: mongo_connection_create was invoked; oob_read: an element
\* outside servers->server was read; selected: the candidate filter ran;
\* disc_killed: connections destroyed while discovery ran.
NoHist == [start |-> 0, disc_start |-> 0, rp_passed |-> "unread", pinged |-> {},
           create_called |-> FALSE, oob_read |-> FALSE, selected |-> FALSE,
           disc_killed |-> {}]

\* What a caller passes in: the seeds of one list share their credentials; a
\* standalone deployment names at most one server; an unknown deployment type
\* is rejected before anything else is read.
CallInputs(hosts, max_seeds) ==
    {inp \in [hosts : SeqsUpTo(hosts, max_seeds), cred : BOOLEAN, con_type : ConTypes,
              dont_connect : BOOLEAN] :
        /\ inp.hosts = <<>> => ~inp.cred
        /\ inp.con_type = "STANDALONE" => Len(inp.hosts) <= 1
        /\ inp.con_type = "UNKNOWN" => inp.hosts = <<>> /\ ~inp.dont_connect}

\* mongo_init: an empty registry.
InitManager ==
    /\ connections = <<>>
    /\ cons = <<>>
    /\ pc = "idle"
    /\ servers = NoServers
    /\ connection_flags = NoFlags
    /\ i = 0
    /\ j = 0
    /\ found_hosts = <<>>
    /\ res = -1
    /\ found_connected_server = FALSE
    /\ messages = <<>>
    /\ con = NULL
    /\ error_message = NoError
    /\ hist = NoHist
    /\ destroy_order = <<>>

Init ==
    /\ env = [hosts |-> Hosts, max_creates |-> MaxCreates, max_seeds |-> MaxSeeds,
              max_found |-> MaxFound, members |-> <<>>]
    /\ InitManager

count == Len(servers.server)

\* What the deployment lets the collaborators answer: create fails once the
\* run has used up its connections; the servers of a healthy replica set
\* (env.members given) accept every session, login and ping.
OutcomeAllowed(o) ==
    /\ Len(cons) >= env.max_creates => ~o.create
    /\ env.members # <<>> => o.create /\ o.auth = "ok" /\ o.ping

Observe(r) ==
    [hist EXCEPT !.pinged = @ \cup r.pinged,
                 !.create_called = @ \/ r.creates > 0]

\* The connections alive in before (or created since) and destroyed in after.
Destroyed(before, after) ==
    {c \in 1..Len(after) : /\ ~IsAlive(after, c)
                           /\ (c > Len(before) \/ IsAlive(before, c))}

(* ---------------------------------------------------------------------- *)
(* mongo_get_read_write_connection                                         *)
(* ---------------------------------------------------------------------- *)

\* The caller enters the public API with a server list and flags.
Call ==
    /\ pc = "idle"
    /\ \E inp \in CallInputs(env.hosts, env.max_seeds) :
        /\ servers' = [server |-> [k \in DOMAIN inp.hosts |->
                                      [host |-> inp.hosts[k], cred |-> inp.cred]],
                       con_type |-> inp.con_type, read_pref |-> Unread]
        /\ connection_flags' = IF inp.dont_connect THEN {"DONT_CONNECT"} ELSE {}
        /\ hist' = [NoHist EXCEPT !.start = Len(cons)]
        /\ IF inp.con_type = "REPLSET" THEN pc' = "rs_seeds" /\ error_message' = NoError
           ELSE IF inp.con_type \in {"STANDALONE", "MULTIPLE"}
                THEN pc' = "m_seeds" /\ error_message' = NoError
                ELSE pc' = "return" /\ error_message' = UnknownType
    /\ i' = 1
    /\ j' = 0
    /\ found_hosts' = <<>>
    /\ res' = -1
    /\ found_connected_server' = FALSE
    /\ messages' = <<>>
    /\ con' = NULL
    /\ UNCHANGED <<env, connections, cons, destroy_order>>

\* One iteration of the seed loop of the replica set path.
ReplicasetSeed ==
    /\ pc = "rs_seeds"
    /\ i <= count
    /\ \E o \in Outcomes :
        /\ OutcomeAllowed(o)
        /\ LET r == mongo_get_connection_single(connections, cons, servers.server[i],
                                                "DONT_CONNECT" \in connection_flags,
                                                o)
           IN  /\ connections' = r.connections
               /\ cons' = r.cons
               /\ found_connected_server' = (found_connected_server \/ r.con # NULL)
               /\ hist' = Observe(r)
    /\ i' = i + 1
    /\ UNCHANGED <<env, pc, servers, connection_flags, j, found_hosts, res, messages,
                   con, error_message, destroy_order>>

\* After the seed loop: give up on a lookup that found nothing, else discover.
ReplicasetSeedsDone ==
    /\ pc = "rs_seeds"
    /\ i > count
    /\ IF ~found_connected_server /\ "DONT_CONNECT" \in connection_flags
       THEN pc' = "return" /\ hist' = hist
       ELSE pc' = "discover" /\ hist' = [hist EXCEPT !.disc_start = Len(cons)]
    /\ i' = 1
    /\ UNCHANGED <<env, connections, cons, servers, connection_flags, j, found_hosts,
                   res, found_connected_server, messages, con, error_message,
                   destroy_order>>

(* ---------------------------------------------------------------------- *)
(* mongo_discover_topology                                                 *)
(* ---------------------------------------------------------------------- *)

\* ismaster answers 0 (error), 1 (ok), 2 (skipped) or 3 (ok, but the contacted
\* host is not in the reported host list); 1 and 3 carry the host list, 1
\* also records the role the server reports.
\* In a healthy replica set (env.members given) a member answers ok with the
\* member list, or is skipped, and any other name is an alias that answers 3
\* with the member list.
IsmasterReplies(me, cur_type) ==
    {rep \in [res : 0..3,
              hosts : IF env.members = <<>> THEN SeqsUpTo(env.hosts, env.max_found)
                      ELSE {<<>>, env.members},
              type : NodeTypes] :
        /\ rep.res \in {0, 2} => rep.hosts = <<>>
        /\ rep.res = 1 => me \in Range(rep.hosts)
        /\ rep.res = 3 => me \notin Range(rep.hosts)
        /\ rep.res # 1 => rep.type = cur_type
        /\ env.members # <<>> =>
              /\ rep.res # 0
              /\ rep.res # 2 => rep.hosts = env.members
              /\ me \notin Range(env.members) => rep.res = 3}

\* discovery that also deregisters the connection after a skipped ismaster.
ismaster_skip_deregisters(conns, cs, c, r) ==
    IF r \in {0, 2, 3} THEN mongo_manager_connection_deregister(conns, cs, c)
    ELSE [ret |-> 0, connections |-> conns, cons |-> cs]

\* discovery that drops the whole registry when one ismaster fails.
ismaster_error_drops_registry(conns, cs, c, r) ==
    IF r = 0
    THEN [ret |-> 1, connections |-> <<>>,
          cons |-> [k \in 1..Len(cs) |->
                       IF \E n \in 1..Len(conns) : conns[n].connection = k
                       THEN [hash |-> <<>>, type |-> "Standalone",
                             destroyed |-> cs[k].destroyed + 1]
                       ELSE cs[k]]]
    ELSE IF r = 3 THEN mongo_manager_connection_deregister(conns, cs, c)
    ELSE [ret |-> 0, connections |-> conns, cons |-> cs]

\* switch (res): case 0 and case 3 deregister the probed connection.
discover_deregister(conns, cs, c, r) ==
    IF r \in {0, 3} THEN mongo_manager_connection_deregister(conns, cs, c)
    ELSE [ret |-> 0, connections |-> conns, cons |-> cs]

\* discovery whose case 3 ends with a break instead of falling into case 1.
discover_breaks_after_remove(r) == r = 1

\* case 3 falls through into case 1: both walk the reported host list.
discover_expands(r) == r \in {1, 3}

\* One iteration of the loop over servers->server: look the entry up, ask
\* ismaster, deregister on 0 and 3, keep the host list on 1 and 3.
DiscoverProbe ==
    /\ pc = "discover"
    /\ i <= count
    /\ LET hash == mongo_server_create_hash(servers.server[i])
           c    == mongo_manager_connection_find_by_hash(connections, hash)
       IN  IF c = NULL
           THEN /\ i' = i + 1
                /\ UNCHANGED <<connections, cons, pc, j, found_hosts, res, hist>>
           ELSE \E rep \in IsmasterReplies(servers.server[i].host, cons[c].type) :
                LET typed == [cons EXCEPT ![c].type = rep.type]
                    d     == discover_deregister(connections, typed, c, rep.res)
                IN  /\ res' = rep.res
                    /\ connections' = d.connections
                    /\ cons' = d.cons
                    /\ hist' = [hist EXCEPT !.disc_killed = @ \cup Destroyed(cons, d.cons)]
                    /\ IF discover_expands(rep.res) /\ rep.hosts # <<>>
                       THEN pc' = "hosts" /\ j' = 1 /\ found_hosts' = rep.hosts /\ i' = i
                       ELSE pc' = pc /\ j' = j /\ found_hosts' = found_hosts /\ i' = i + 1
    /\ UNCHANGED <<env, servers, connection_flags, found_connected_server, messages,
                   con, error_message, destroy_order>>

\* One iteration of the loop over found_hosts: a reported host without a
\* registry entry is single-acquired with the WRITE flag alone and, on
\* success, appended to servers->server.
DiscoverHost ==
    /\ pc = "hosts"
    /\ j <= Len(found_hosts)
    /\ LET tmp_def  == [host |-> found_hosts[j], cred |-> servers.server[i].cred]
           tmp_hash == mongo_server_create_hash(tmp_def)
       IN  IF mongo_manager_connection_find_by_hash(connections, tmp_hash) = NULL
           THEN \E o \in Outcomes :
                /\ OutcomeAllowed(o)
                /\ LET r == mongo_get_connection_single(connections, cons, tmp_def, FALSE, o)
                   IN  /\ connections' = r.connections
                       /\ cons' = r.cons
                       /\ hist' = [Observe(r) EXCEPT
                                       !.disc_killed = @ \cup Destroyed(cons, r.cons)]
                       /\ servers' = IF r.con # NULL
                                     THEN [servers EXCEPT !.server = Append(@, tmp_def)]
                                     ELSE servers
           ELSE UNCHANGED <<connections, cons, hist, servers>>
    /\ IF j = Len(found_hosts)
       THEN pc' = "discover" /\ i' = i + 1 /\ j' = 0 /\ found_hosts' = <<>>
       ELSE pc' = pc /\ i' = i /\ j' = j + 1 /\ found_hosts' = found_hosts
    /\ UNCHANGED <<env, connection_flags, res, found_connected_server, messages, con,
                   error_message, destroy_order>>

\* The index reached the end of the (grown) server list.
DiscoverDone ==
    /\ pc = "discover"
    /\ i > count
    /\ pc' = "rs_select"
    /\ UNCHANGED <<env, connections, cons, servers, connection_flags, i, j,
                   found_hosts, res, found_connected_server, messages, con,
                   error_message, hist, destroy_order>>

(* ---------------------------------------------------------------------- *)
(* Selection of the replica set path                                       *)
(* ---------------------------------------------------------------------- *)

\* The round trips the registered connections measured at their last pings.
PingMeasurements == [{connections[k].connection : k \in 1..Len(connections)} -> PingTimes]

\* replica set selection that leaves *error_message alone when no candidate
\* is found.
replicaset_error_not_set(empty, prev) == prev

\* if (!collection || collection->count == 0)
\*     *error_message = strdup("No candidate servers found");
\* prev: *error_message as it was.
replicaset_error(empty, prev) == IF empty THEN NoCandidates ELSE prev

\* servers->server[0] is read for the auth hash.  With count = 0 the read is
\* outside the list: the process may die there, or go on with whatever the
\* read produced.
ReplicasetSelect ==
    /\ pc = "rs_select"
    /\ \/ /\ count = 0
          /\ pc' = "crashed"
          /\ hist' = [hist EXCEPT !.oob_read = TRUE]
          /\ UNCHANGED <<con, error_message, servers, connection_flags>>
       \/ \E auth_hash \in IF count = 0 THEN BOOLEAN ELSE {auth_hash_of(servers.server[1])},
             ping_ms \in PingMeasurements, rp \in RPTypes, write \in BOOLEAN :
          LET use   == replicaset_filter_rp([type |-> rp], write)
              picks == Selection(connections, cons, ping_ms, use.filter, use.kept,
                                 auth_hash)
          IN  /\ pc' = "return"
              /\ servers' = [servers EXCEPT !.read_pref = use.kept]
              /\ connection_flags' = connection_flags \cup
                                         (IF write THEN {"WRITE"} ELSE {})
              /\ hist' = [hist EXCEPT !.oob_read = (count = 0), !.selected = TRUE,
                                       !.rp_passed = rp]
              /\ error_message' = replicaset_error(picks = {}, error_message)
              /\ IF picks = {} THEN con' = NULL ELSE \E c \in picks : con' = c
    /\ UNCHANGED <<env, connections, cons, i, j, found_hosts,
                   res, found_connected_server, messages, destroy_order>>

(* ---------------------------------------------------------------------- *)
(* mongo_get_connection_multiple (standalone and multiple deployments)     *)
(* ---------------------------------------------------------------------- *)

\* messages that puts the "; " in front of every part, the first included.
mcon_str_add_failure_always_separates(msgs, hostport, err) ==
    msgs \o <<"; ", "Failed to connect to: ", hostport, ": ", err>>

\* if (messages->l) add "; "; then add "Failed to connect to: ", host ":"
\* port (one piece here, as Hosts names servers by host:port), ": " and
\* con_error_message.  messages is the sequence of the pieces added.
mcon_str_add_failure(msgs, hostport, err) ==
    (IF msgs # <<>> THEN msgs \o <<"; ">> ELSE <<>>)
        \o <<"Failed to connect to: ", hostport, ": ", err>>

\* One iteration of the seed loop; a failure adds a part to messages.
MultipleSeed ==
    /\ pc = "m_seeds"
    /\ i <= count
    /\ \E o \in Outcomes :
        /\ OutcomeAllowed(o)
        /\ LET r == mongo_get_connection_single(connections, cons, servers.server[i],
                                                "DONT_CONNECT" \in connection_flags,
                                                o)
           IN  /\ connections' = r.connections
               /\ cons' = r.cons
               /\ found_connected_server' = (found_connected_server \/ r.con # NULL)
               /\ messages' = IF r.con = NULL /\ ~"DONT_CONNECT" \in connection_flags
                              THEN mcon_str_add_failure(messages,
                                                        servers.server[i].host, r.err)
                              ELSE messages
               /\ hist' = Observe(r)
    /\ i' = i + 1
    /\ UNCHANGED <<env, pc, servers, connection_flags, j, found_hosts, res, con,
                   error_message, destroy_order>>

\* If we don't have a connected server then there is no point in continuing.
MultipleSeedsDone ==
    /\ pc = "m_seeds"
    /\ i > count
    /\ pc' = IF ~found_connected_server /\ "DONT_CONNECT" \in connection_flags
             THEN "return" ELSE "m_select"
    /\ UNCHANGED <<env, connections, cons, servers, connection_flags, i, j,
                   found_hosts, res, found_connected_server, messages, con,
                   error_message, hist, destroy_order>>

\* if (!collection || collection->count == 0): the composed seed errors if
\* there are any (messages->l), else "No candidate servers found".
multiple_error(empty, msgs, prev) ==
    IF empty
    THEN IF msgs # <<>> THEN [text |-> "composite", parts |-> msgs] ELSE NoCandidates
    ELSE prev

\* Reads servers->server[0] like the replica set path, filters with Nearest
\* and surfaces the composed seed errors when nothing is left.
MultipleSelect ==
    /\ pc = "m_select"
    /\ \/ /\ count = 0
          /\ pc' = "crashed"
          /\ hist' = [hist EXCEPT !.oob_read = TRUE]
          /\ UNCHANGED <<con, error_message, servers, connection_flags>>
       \/ \E auth_hash \in IF count = 0 THEN BOOLEAN ELSE {auth_hash_of(servers.server[1])},
             ping_ms \in PingMeasurements, rp \in RPTypes, write \in BOOLEAN :
          LET use   == multiple_filter_rp([type |-> rp])
              picks == Selection(connections, cons, ping_ms, use.filter, use.kept,
                                 auth_hash)
          IN  /\ pc' = "return"
              /\ servers' = [servers EXCEPT !.read_pref = use.kept]
              /\ connection_flags' = connection_flags \cup
                                         (IF write THEN {"WRITE"} ELSE {})
              /\ hist' = [hist EXCEPT !.oob_read = (count = 0), !.selected = TRUE,
                                       !.rp_passed = rp]
              /\ error_message' = multiple_error(picks = {}, messages, error_message)
              /\ IF picks = {} THEN con' = NULL ELSE \E c \in picks : con' = c
    /\ UNCHANGED <<env, connections, cons, i, j, found_hosts,
                   res, found_connected_server, messages, destroy_order>>

\* The acquisition hands con and *error_message to the caller.
Return ==
    /\ pc = "return"
    /\ pc' = "idle"
    /\ servers' = NoServers
    /\ connection_flags' = NoFlags
    /\ i' = 0
    /\ j' = 0
    /\ found_hosts' = <<>>
    /\ res' = -1
    /\ found_connected_server' = FALSE
    /\ messages' = <<>>
    /\ con' = NULL
    /\ error_message' = NoError
    /\ hist' = NoHist
    /\ UNCHANGED <<env, connections, cons, destroy_order>>

(* ---------------------------------------------------------------------- *)
(* mongo_deinit                                                            *)
(* ---------------------------------------------------------------------- *)

\* destroy that handles item->connection before it goes on to item->next.
destroy_manager_item_head_first(items) ==
    [k \in 1..Len(items) |-> items[k].connection]

\* destroy_manager_item recurses into item->next before it destroys
\* item->connection: the connections in the order they are destroyed.
RECURSIVE destroy_manager_item(_)
destroy_manager_item(items) ==
    (IF Len(items) > 1 THEN destroy_manager_item(Tail(items)) ELSE <<>>)
        \o <<items[1].connection>>

RECURSIVE DestroyEach(_, _)
DestroyEach(cs, order) ==
    IF order = <<>> THEN cs
    ELSE DestroyEach(mongo_connection_destroy(cs, Head(order)), Tail(order))

\* if (manager->connections) destroy_manager_item(manager, manager->connections)
mongo_deinit(conns) ==
    IF conns # <<>> THEN destroy_manager_item(conns) ELSE <<>>

Deinit ==
    /\ pc = "idle"
    /\ pc' = "deinit"
    /\ destroy_order' = mongo_deinit(connections)
    /\ cons' = DestroyEach(cons, destroy_order')
    /\ connections' = <<>>
    /\ UNCHANGED <<env, servers, connection_flags, i, j, found_hosts, res,
                   found_connected_server, messages, con, error_message, hist>>

Next ==
    \/ Call
    \/ ReplicasetSeed
    \/ ReplicasetSeedsDone
    \/ DiscoverProbe
    \/ DiscoverHost
    \/ DiscoverDone
    \/ ReplicasetSelect
    \/ MultipleSeed
    \/ MultipleSeedsDone
    \/ MultipleSelect
    \/ Return
    \/ Deinit

Spec == Init /\ [][Next]_vars

(* ---------------------------------------------------------------------- *)
(* The registry interface called directly                                  *)
(* ---------------------------------------------------------------------- *)

\* A caller of the exposed interface registers a new connection under a hash
\* it has looked up and not found, as single-acquire does.
RegistryRegister ==
    /\ pc = "idle"
    /\ Len(cons) < MaxRegistered
    /\ \E sd \in [host : env.hosts, cred : BOOLEAN], t \in NodeTypes :
         LET hash == mongo_server_create_hash(sd)
             cs1  == mongo_connection_create(cons, hash, t)
         IN  /\ mongo_manager_connection_find_by_hash(connections, hash) = NULL
             /\ cons' = cs1
             /\ connections' = mongo_manager_connection_register(connections, cs1, Len(cs1))
    /\ UNCHANGED <<env, pc, servers, connection_flags, i, j, found_hosts, res,
                   found_connected_server, messages, con, error_message, hist,
                   destroy_order>>

\* A caller deregisters a connection it got from the registry.
RegistryDeregister ==
    /\ pc = "idle"
    /\ \E k \in 1..Len(connections) :
         LET d == mongo_manager_connection_deregister(connections, cons,
                                                     connections[k].connection)
         IN  /\ connections' = d.connections
             /\ cons' = d.cons
    /\ UNCHANGED <<env, pc, servers, connection_flags, i, j, found_hosts, res,
                   found_connected_server, messages, con, error_message, hist,
                   destroy_order>>

NextRegistry ==
    \/ RegistryRegister
    \/ RegistryDeregister

SpecRegistry == Init /\ [][NextRegistry]_vars

(* ---------------------------------------------------------------------- *)
(* One replica set acquisition on a fresh manager, up to the end of its    *)
(* topology discovery, against deployments with more servers               *)
(* ---------------------------------------------------------------------- *)

\* Number of connections create hands out in these runs.
MaxDiscoveryCreates == 4

ReplicaSetHosts == {"a:1", "b:1", "c:1", "d:1"}

\* Two servers that answer ismaster in any way, each naming one host.
TwoServers ==
    [hosts |-> Hosts, max_creates |-> MaxDiscoveryCreates, max_seeds |-> 1,
     max_found |-> 1, members |-> <<>>]

\* A healthy replica set of b:1, c:1 and d:1; a:1 is another name of one of
\* its members.
AliasedReplicaSet ==
    [hosts |-> ReplicaSetHosts, max_creates |-> MaxDiscoveryCreates, max_seeds |-> 1,
     max_found |-> 3, members |-> <<"b:1", "c:1", "d:1">>]

InitDiscovery ==
    /\ env \in {TwoServers, AliasedReplicaSet}
    /\ InitManager

CallReplicaSet == Call /\ servers'.con_type = "REPLSET"

NextDiscovery ==
    \/ CallReplicaSet
    \/ ReplicasetSeed
    \/ ReplicasetSeedsDone
    \/ DiscoverProbe
    \/ DiscoverHost
    \/ DiscoverDone

SpecDiscovery == InitDiscovery /\ [][NextDiscovery]_vars

(* ====================================================================== *)
(* Properties                                                              *)
(* ====================================================================== *)

Registered(c) == \E k \in 1..Len(connections) : connections[k].connection = c

Returned == pc = "return" /\ con # NULL

AllHashes == {mongo_server_create_hash(sd) : sd \in [host : env.hosts, cred : BOOLEAN]}

\* C1: at any time no two registry entries have the same hash and no
\* connection appears in more than one entry.
C1_RegistryUnique ==
    \A k, l \in 1..Len(connections) :
        k # l => /\ connections[k].hash # connections[l].hash
                 /\ connections[k].connection # connections[l].connection

\* A seed list naming the same server twice has been worked through and the
\* server is registered.
C1_Witness ==
    /\ pc \in {"rs_seeds", "m_seeds"}
    /\ i = 3
    /\ servers.server[1] = servers.server[2]
    /\ mongo_manager_connection_find_by_hash(
           connections, mongo_server_create_hash(servers.server[1])) # NULL

\* C2 as claimed: a returned connection is in the registry and has passed a
\* ping during the same acquisition.
C2_Original ==
    Returned => Registered(con) /\ con \in hist.pinged

\* C2 as amended: a returned connection is in the registry and alive, and it
\* has passed a ping during the same acquisition unless an earlier
\* acquisition created it.
C2_Amended ==
    Returned => /\ Registered(con)
                /\ IsAlive(cons, con)
                /\ (con \in hist.pinged \/ con <= hist.start)

\* A connection created, pinged and registered by this acquisition is
\* returned while an older connection sits in the registry.
C2_Witness ==
    /\ Returned
    /\ con > hist.start
    /\ hist.start > 0
    /\ Len(connections) = 2

\* C3: during an acquisition called with DONT_CONNECT create is never invoked.
C3_Claim ==
    "DONT_CONNECT" \in connection_flags => ~hist.create_called

\* C4: no connection is ever destroyed twice, and after deinit every
\* connection the manager created has been destroyed exactly once.
C4_DestroyedOnce ==
    /\ \A c \in 1..Len(cons) : cons[c].destroyed <= 1
    /\ pc = "deinit" => \A c \in 1..Len(cons) : cons[c].destroyed = 1

\* deinit ran after two creates, one connection having been destroyed before
\* (failed authenticate or ping, or deregister) and one by deinit itself.
C4_Witness ==
    /\ pc = "deinit"
    /\ Len(cons) = 2
    /\ Len(destroy_order) = 1

\* C5 as claimed: with read preference Primary every returned connection is
\* a primary, for every deployment type.
C5_Original ==
    Returned /\ servers.read_pref.type = "Primary" => cons[con].type = "Primary"

\* C5 as amended: with read preference Primary every connection returned on
\* a replica set deployment is a primary.
C5_Amended ==
    Returned /\ servers.read_pref.type = "Primary" /\ servers.con_type = "REPLSET"
        => cons[con].type = "Primary"

\* A read with preference Primary on a replica set returns a connection
\* while the registry also holds a secondary of the same auth pool.
C5_Witness ==
    /\ Returned
    /\ servers.con_type = "REPLSET"
    /\ servers.read_pref.type = "Primary"
    /\ "WRITE" \notin connection_flags
    /\ \E k \in 1..Len(connections) :
          /\ cons[connections[k].connection].type = "Secondary"
          /\ Len(connections[k].hash) = Len(cons[con].hash)

\* C6: a write on a replica set returns a primary or nothing, whatever the
\* caller's read preference, and leaves servers->read_pref as the caller
\* passed it.
C6_WriteReturnsPrimary ==
    pc = "return" /\ servers.con_type = "REPLSET" /\ "WRITE" \in connection_flags
        => /\ con # NULL => cons[con].type = "Primary"
           /\ (\A k \in 1..Len(connections) :
                  cons[connections[k].connection].type # "Primary")
                 => con = NULL /\ error_message = NoCandidates
           /\ servers.read_pref.type = hist.rp_passed

\* A write with preference SecondaryPreferred returns a connection while a
\* secondary of the same auth pool is registered.
C6_Witness ==
    /\ Returned
    /\ servers.con_type = "REPLSET"
    /\ "WRITE" \in connection_flags
    /\ hist.rp_passed = "SecondaryPreferred"
    /\ \E k \in 1..Len(connections) :
          /\ cons[connections[k].connection].type = "Secondary"
          /\ Len(connections[k].hash) = Len(cons[con].hash)

InDiscovery == pc \in {"discover", "hosts"}

\* C7 as claimed: topology discovery never destroys a connection that it did
\* not itself create during the same discovery invocation.
C7_Original ==
    \A c \in hist.disc_killed : c > hist.disc_start

\* C7 as amended: discovery destroys a connection it did not create only by
\* deregistering the connection of the server list entry it has just probed,
\* and only when ismaster answered Error (0) or RemoveSeed (3); after Ok or
\* Skipped every connection that existed before discovery is still alive.
C7_Amended ==
    [][InDiscovery =>
          \A c \in 1..hist.disc_start :
              IsAlive(cons, c) /\ ~IsAlive(cons', c)
                  => /\ pc = "discover"
                     /\ i <= count
                     /\ res' \in {0, 3}
                     /\ c = mongo_manager_connection_find_by_hash(
                                connections, mongo_server_create_hash(servers.server[i]))]_vars

\* Discovery has returned after an ismaster error made it destroy a
\* connection that the seed loop or an earlier acquisition had registered.
C7_Witness ==
    /\ pc = "rs_select"
    /\ res = 0
    /\ \E c \in hist.disc_killed : c <= hist.disc_start

\* C8: between init and deinit every connection referenced by a registry
\* entry is alive.
C8_RegistryAlive ==
    \A k \in 1..Len(connections) : IsAlive(cons, connections[k].connection)

\* A connection has been destroyed (failed authenticate or ping, or
\* deregister) while another one is registered.
C8_Witness ==
    /\ pc # "deinit"
    /\ Len(connections) >= 1
    /\ \E c \in 1..Len(cons) : ~IsAlive(cons, c)

\* C9: registry round trip.  In every registry with pairwise distinct hashes: a new
\* connection c whose hash has no entry yet is found after register(c), and
\* register(c); deregister(c) returns true, leaves no entry for c.hash and
\* gives the registry back as it was; deregister of a registered connection
\* returns true, removes its entry alone and keeps the others in order.
C9_RoundTrip ==
    /\ \A h \in AllHashes :
          mongo_manager_connection_find_by_hash(connections, h) = NULL =>
              LET cs1 == mongo_connection_create(cons, h, "Primary")
                  c   == Len(cs1)
                  r1  == mongo_manager_connection_register(connections, cs1, c)
                  d   == mongo_manager_connection_deregister(r1, cs1, c)
              IN  /\ mongo_manager_connection_find_by_hash(r1, h) = c
                  /\ \A k \in 1..Len(connections) : r1[k] = connections[k]
                  /\ d.ret = 1
                  /\ mongo_manager_connection_find_by_hash(d.connections, h) = NULL
                  /\ d.connections = connections
                  /\ ~IsAlive(d.cons, c)
    /\ \A k \in 1..Len(connections) :
          LET c == connections[k].connection
              h == connections[k].hash
              d == mongo_manager_connection_deregister(connections, cons, c)
          IN  /\ mongo_manager_connection_find_by_hash(connections, h) = c
              /\ d.ret = 1
              /\ mongo_manager_connection_find_by_hash(d.connections, h) = NULL
              /\ d.connections = SelectSeq(connections, LAMBDA e : e.connection # c)

\* The registry holds three entries and a hash without an entry, after an
\* earlier connection has been registered and deregistered again.
C9_Witness ==
    /\ Len(connections) = 3
    /\ \E h \in AllHashes : mongo_manager_connection_find_by_hash(connections, h) = NULL
    /\ \E c \in 1..Len(cons) : ~IsAlive(cons, c)

\* C10: an acquisition with an empty seed list and without DONT_CONNECT, on a
\* standalone, replica set or multiple deployment, returns no connection,
\* sets "No candidate servers found" and reads no element of the empty list.
C10_Claim ==
    /\ pc \in {"return", "crashed"}
    /\ count = 0
    /\ servers.con_type \in {"STANDALONE", "REPLSET", "MULTIPLE"}
    /\ "DONT_CONNECT" \notin connection_flags
    => /\ pc = "return"
       /\ con = NULL
       /\ error_message = NoCandidates
       /\ ~hist.oob_read

\* The text single-acquire leaves in con_error_message when it fails.
SeedErrors == {"create", "nonce_failed", "auth_failed", "ping"}

\* parts is one "Failed to connect to: host:port: message" part per seed, in
\* seed order, joined by "; ".
IsComposite(parts, seeds) ==
    /\ Len(parts) = 5 * Len(seeds) - 1
    /\ \A k \in 1..Len(seeds) :
          /\ parts[5 * (k - 1) + 1] = "Failed to connect to: "
          /\ parts[5 * (k - 1) + 2] = seeds[k].host
          /\ parts[5 * (k - 1) + 3] = ": "
          /\ parts[5 * (k - 1) + 4] \in SeedErrors
          /\ k < Len(seeds) => parts[5 * k] = "; "

\* A standalone or multiple acquisition without DONT_CONNECT returns after
\* single-acquire failed for every one of its seeds.
MultipleAllSeedsFailed ==
    /\ pc = "return"
    /\ servers.con_type \in {"STANDALONE", "MULTIPLE"}
    /\ "DONT_CONNECT" \notin connection_flags
    /\ count >= 1
    /\ ~found_connected_server

\* The registry holds a primary or secondary of the auth pool of the first
\* server of the list.
PoolHasCandidate ==
    \E k \in 1..Len(connections) :
        /\ (Len(connections[k].hash) = 2) = servers.server[1].cred
        /\ cons[connections[k].connection].type \in {"Primary", "Secondary"}

\* C11 as claimed: when single-acquire fails for every seed of a standalone
\* or multiple acquisition, no connection is returned and the error message is
\* the composite of the per-seed failures, whatever the registry holds.
C11_Original ==
    MultipleAllSeedsFailed
        => /\ con = NULL
           /\ error_message.text = "composite"
           /\ IsComposite(error_message.parts, servers.server)

\* C11 as amended: when single-acquire fails for every seed, the acquisition
\* returns no connection and the composite of the per-seed failures exactly
\* when the registry holds no primary or secondary of the caller's auth pool;
\* otherwise it returns such a connection, left by an earlier acquisition,
\* and sets no error message.
C11_Amended ==
    MultipleAllSeedsFailed
        => IF PoolHasCandidate
           THEN /\ con # NULL
                /\ con <= hist.start
                /\ Registered(con)
                /\ error_message = NoError
           ELSE /\ con = NULL
                /\ error_message.text = "composite"
                /\ IsComposite(error_message.parts, servers.server)

\* Both seeds of a multiple acquisition failed and the composite is surfaced
\* while the registry holds a connection of an earlier acquisition.
C11_Witness ==
    /\ MultipleAllSeedsFailed
    /\ count = 2
    /\ con = NULL
    /\ error_message.text = "composite"
    /\ Len(connections) >= 1

\* A replica set acquisition without DONT_CONNECT returns after single-acquire
\* failed for every one of its seeds.
ReplicasetAllSeedsFailed ==
    /\ pc = "return"
    /\ servers.con_type = "REPLSET"
    /\ "DONT_CONNECT" \notin connection_flags
    /\ count >= 1
    /\ ~found_connected_server

\* C12 as claimed: when single-acquire fails for every seed of a replica set
\* acquisition, no connection is returned and the error message is exactly
\* "No candidate servers found".
C12_Original ==
    ReplicasetAllSeedsFailed => con = NULL /\ error_message = NoCandidates

\* C12 as amended: when single-acquire fails for every seed, discovery asks
\* no ismaster and the server list stays as passed; the acquisition returns
\* either no connection with exactly "No candidate servers found", and always
\* so when the registry holds no primary or secondary of the caller's auth
\* pool, or a registered connection left by an earlier acquisition with no
\* error message set; the per-seed errors are never surfaced.
C12_Amended ==
    ReplicasetAllSeedsFailed
        => /\ res = -1
           /\ hist.disc_killed = {}
           /\ IF con = NULL
              THEN error_message = NoCandidates
              ELSE /\ con <= hist.start
                   /\ Registered(con)
                   /\ PoolHasCandidate
                   /\ error_message = NoError

\* Both seeds of a replica set acquisition failed and "No candidate servers
\* found" is surfaced while the registry holds a connection of an earlier
\* acquisition.
C12_Witness ==
    /\ ReplicasetAllSeedsFailed
    /\ count = 2
    /\ con = NULL
    /\ error_message = NoCandidates
    /\ Len(connections) >= 1

\* A lookup-only acquisition is in its seed loop and no seed of its list has
\* a registry entry.
LookupFindsNothing ==
    /\ pc \in {"rs_seeds", "m_seeds"}
    /\ "DONT_CONNECT" \in connection_flags
    /\ \A k \in 1..count :
          mongo_manager_connection_find_by_hash(
              connections, mongo_server_create_hash(servers.server[k])) = NULL

\* C13: every step of an acquisition with DONT_CONNECT none of whose seeds
\* has a registry entry leaves the registry, the connections and the server
\* list unchanged, asks no ismaster, runs no selection, reads no element
\* outside the list, and the acquisition goes from the seed loop straight to
\* its return with no connection and no error message.
C13_LookupOnly ==
    [][LookupFindsNothing
          => /\ connections' = connections
             /\ cons' = cons
             /\ servers' = servers
             /\ pc' \in {pc, "return"}
             /\ con' = NULL
             /\ error_message' = NoError
             /\ res' = -1
             /\ ~hist'.selected
             /\ ~hist'.oob_read
             /\ ~hist'.create_called]_vars

\* A lookup-only replica set acquisition with two seeds, neither of them
\* registered, returns while the registry holds another connection.
C13_Witness ==
    /\ pc = "return"
    /\ servers.con_type = "REPLSET"
    /\ "DONT_CONNECT" \in connection_flags
    /\ count = 2
    /\ \A k \in 1..count :
          mongo_manager_connection_find_by_hash(
              connections, mongo_server_create_hash(servers.server[k])) = NULL
    /\ Len(connections) >= 1
    /\ con = NULL
    /\ error_message = NoError
    /\ ~hist.selected

\* The connections of a registry in list (registration) order.
InListOrder(conns) == [k \in 1..Len(conns) |-> conns[k].connection]

Reverse(q) == [k \in 1..Len(q) |-> q[Len(q) + 1 - k]]

\* C14 as claimed: deinit destroys the registered connections in forward
\* (registration) order.
C14_Original ==
    [][pc' = "deinit" => destroy_order' = InListOrder(connections)]_vars

\* C14 as amended: deinit destroys every registered connection once, in
\* reverse registration order: the entry registered last is destroyed first.
C14_Amended ==
    [][pc' = "deinit"
          => /\ destroy_order' = Reverse(InListOrder(connections))
             /\ \A k \in 1..Len(connections) :
                   /\ IsAlive(cons, connections[k].connection)
                   /\ ~IsAlive(cons', connections[k].connection)]_vars

\* deinit has destroyed two registered connections.
C14_Witness ==
    /\ pc = "deinit"
    /\ Len(destroy_order) = 2
    /\ destroy_order[1] # destroy_order[2]

\* The registry holds exactly one entry, for the server under the index.
OnlyProbedRegistered ==
    /\ Len(connections) = 1
    /\ connections[1].hash = mongo_server_create_hash(servers.server[i])

\* C15: topology discovery terminates for any outcomes of ismaster, create,
\* authenticate and ping; so, started on one seed with only that seed
\* registered, its index loop never stands again on the last entry of a
\* longer list, that entry naming the seed and being the only one
\* registered: from there the same outcomes take it round once more, with
\* no end.
C15_Claim ==
    ~(/\ pc = "discover"
      /\ env.max_seeds = 1
      /\ hist.start = 0
      /\ i = count
      /\ i > 1
      /\ servers.server[i] = servers.server[1]
      /\ OnlyProbedRegistered)

ServerDefs == [host : env.hosts, cred : BOOLEAN]

\* Place of a call in the order create, getnonce, authenticate, ping and
\* then register or destroy.
StepRank(call) ==
    CASE call = "create"       -> 1
      [] call = "getnonce"     -> 2
      [] call = "authenticate" -> 3
      [] call = "ping"         -> 4
      [] OTHER                 -> 5

\* C16: single-acquire for a server without a registry entry (DONT_CONNECT
\* not set) calls create, then getnonce and authenticate (only with
\* credentials), then ping, then register, each only after the one before it
\* succeeded; on success the new connection is registered and returned; when
\* a step fails the acquire returns none, a connection it created is
\* destroyed and the registry and all other connections are unchanged.
C16_StepOrder ==
    \A server \in ServerDefs, o \in Outcomes :
        mongo_manager_connection_find_by_hash(
            connections, mongo_server_create_hash(server)) = NULL
        => LET r     == mongo_get_connection_single(connections, cons, server, FALSE, o)
               new   == Len(cons) + 1
               calls == r.calls
               auth_ok == ~server.cred \/ o.auth = "ok"
           IN  /\ calls[1] = "create"
               /\ \A a, b \in 1..Len(calls) :
                     a < b => StepRank(calls[a]) < StepRank(calls[b])
               /\ "getnonce" \in Range(calls) <=> o.create /\ server.cred
               /\ "authenticate" \in Range(calls)
                     <=> o.create /\ server.cred /\ o.auth # "nonce_failed"
               /\ "ping" \in Range(calls) <=> o.create /\ auth_ok
               /\ "register" \in Range(calls) <=> o.create /\ auth_ok /\ o.ping
               /\ "destroy" \in Range(calls) <=> o.create /\ ~(auth_ok /\ o.ping)
               /\ \A c \in 1..Len(cons) : r.cons[c] = cons[c]
               /\ IF o.create /\ auth_ok /\ o.ping
                  THEN /\ r.con = new
                       /\ IsAlive(r.cons, new)
                       /\ r.connections =
                              Append(connections,
                                     [hash |-> mongo_server_create_hash(server),
                                      connection |-> new])
                  ELSE /\ r.con = NULL
                       /\ r.connections = connections
                       /\ IF o.create
                          THEN Len(r.cons) = new /\ r.cons[new].destroyed = 1
                          ELSE r.cons = cons

\* The first seed, with credentials, was not registered; single-acquire
\* created a connection for it, failed at a later step and destroyed it,
\* while the registry holds an older connection.
C16_Witness ==
    /\ pc \in {"rs_seeds", "m_seeds"}
    /\ i = 2
    /\ "DONT_CONNECT" \notin connection_flags
    /\ servers.server[1].cred
    /\ Len(cons) = hist.start + 1
    /\ ~IsAlive(cons, Len(cons))
    /\ ~found_connected_server
    /\ Len(connections) >= 1

\* C17 as claimed: whenever single-acquire finds a registry entry for the
\* server's hash it pings that connection before returning it, with or
\* without DONT_CONNECT (the WRITE bit is not read by single-acquire); a
\* failed ping deregisters and destroys the connection and returns none.
C17_Original ==
    \A server \in ServerDefs, o \in Outcomes, dont_connect \in BOOLEAN :
        LET found == mongo_manager_connection_find_by_hash(
                         connections, mongo_server_create_hash(server))
            r     == mongo_get_connection_single(connections, cons, server,
                                                 dont_connect, o)
        IN  found # NULL
            => /\ "ping" \in Range(r.calls)
               /\ IF o.ping
                  THEN r.con = found /\ found \in r.pinged
                  ELSE /\ r.con = NULL
                       /\ ~IsAlive(r.cons, found)
                       /\ mongo_manager_connection_find_by_hash(
                              r.connections, mongo_server_create_hash(server)) = NULL

\* C17 as amended: without DONT_CONNECT single-acquire pings the connection
\* it found before returning it, and a failed ping deregisters and destroys
\* that connection alone and returns none; with DONT_CONNECT it returns the
\* connection it found without any ping and changes nothing.
C17_Amended ==
    \A server \in ServerDefs, o \in Outcomes, dont_connect \in BOOLEAN :
        LET hash  == mongo_server_create_hash(server)
            found == mongo_manager_connection_find_by_hash(connections, hash)
            r     == mongo_get_connection_single(connections, cons, server,
                                                 dont_connect, o)
        IN  found # NULL
            => IF dont_connect
               THEN /\ r.calls = <<>>
                    /\ r.con = found
                    /\ r.pinged = {}
                    /\ r.connections = connections
                    /\ r.cons = cons
               ELSE /\ r.calls # <<>>
                    /\ r.calls[1] = "ping"
                    /\ "create" \notin Range(r.calls)
                    /\ IF o.ping
                       THEN /\ r.con = found
                            /\ found \in r.pinged
                            /\ r.connections = connections
                            /\ r.cons = cons
                       ELSE /\ r.con = NULL
                            /\ r.cons[found].destroyed = 1
                            /\ \A c \in 1..Len(cons) : c # found => r.cons[c] = cons[c]
                            /\ mongo_manager_connection_find_by_hash(
                                   r.connections, hash) = NULL
                            /\ r.connections =
                                   SelectSeq(connections, LAMBDA e : e.connection # found)

\* The first seed had a registry entry from an earlier acquisition; its ping
\* failed, the connection was deregistered and destroyed, and another
\* connection is still registered.
C17_Witness ==
    /\ pc \in {"rs_seeds", "m_seeds"}
    /\ i = 2
    /\ "DONT_CONNECT" \notin connection_flags
    /\ ~hist.create_called
    /\ ~found_connected_server
    /\ hist.start = 2
    /\ Len(connections) = 1

\* The connection of the server list entry under the index.
ProbedConnection ==
    mongo_manager_connection_find_by_hash(
        connections, mongo_server_create_hash(servers.server[i]))

\* ismaster on entry i has just answered RemoveSeed: the entry's connection
\* is deregistered and destroyed, the entry stays in the list and the
\* reported hosts are walked next.
RemoveSeedStep ==
    pc = "discover" /\ i <= count /\ ProbedConnection # NULL /\ res' = 3
        => /\ ~IsAlive(cons', ProbedConnection)
           /\ mongo_manager_connection_find_by_hash(
                  connections', mongo_server_create_hash(servers.server[i])) = NULL
           /\ Len(connections') = Len(connections) - 1
           /\ servers' = servers
           /\ IF found_hosts' # <<>>
              THEN pc' = "hosts" /\ i' = i /\ j' = 1
              ELSE pc' = "discover" /\ i' = i + 1

\* One reported host after RemoveSeed: without a registry entry it is
\* single-acquired and, on success, appended; the list is otherwise kept.
RemoveSeedHostStep ==
    pc = "hosts" /\ res = 3
        => LET def == [host |-> found_hosts[j], cred |-> servers.server[i].cred]
               h   == mongo_server_create_hash(def)
           IN  IF mongo_manager_connection_find_by_hash(connections, h) = NULL
               THEN /\ hist'.create_called
                    /\ IF mongo_manager_connection_find_by_hash(connections', h) # NULL
                       THEN servers'.server = Append(servers.server, def)
                       ELSE servers' = servers
               ELSE servers' = servers /\ connections' = connections /\ cons' = cons

\* Discovery has ended for the single seed a:1, another name of a member of
\* the healthy replica set b:1, c:1, d:1.
AliasSeedDiscovered ==
    /\ pc = "rs_select"
    /\ env.members = <<"b:1", "c:1", "d:1">>
    /\ count >= 1
    /\ servers.server[1].host = "a:1"

\* C18: when ismaster answers RemoveSeed for entry i, discovery deregisters
\* that entry's connection, keeps entry i in the list and still walks the
\* reported hosts, single-acquiring every one without a registry entry and
\* appending it on success; for the single seed a:1 reporting the reachable
\* hosts b:1, c:1, d:1 discovery ends with registry connections exactly for
\* b:1, c:1 and d:1 and a server list of length 4.
C18_RemoveSeedExpands ==
    /\ [][RemoveSeedStep /\ RemoveSeedHostStep]_vars
    /\ [](AliasSeedDiscovered
            => /\ count = 4
               /\ [k \in 1..4 |-> servers.server[k].host]
                     = <<"a:1", "b:1", "c:1", "d:1">>
               /\ Len(connections) = 3
               /\ {connections[k].hash : k \in 1..Len(connections)}
                     = {mongo_server_create_hash(
                            [host |-> h, cred |-> servers.server[1].cred]) :
                        h \in {"b:1", "c:1", "d:1"}}
               /\ \A k \in 1..Len(connections) :
                     IsAlive(cons, connections[k].connection))

\* Discovery has ended for the seed a:1 with four list entries, and the
\* connection created for a:1 has been destroyed.
C18_Witness ==
    /\ AliasSeedDiscovered
    /\ count = 4
    /\ Len(cons) = 4
    /\ ~IsAlive(cons, 1)

\* ismaster on entry i has just answered with an error: that entry's
\* connection alone is deregistered and destroyed, and the loop goes on with
\* the next entry.
IsmasterErrorStep ==
    pc = "discover" /\ i <= count /\ ProbedConnection # NULL /\ res' = 0
        => /\ ~IsAlive(cons', ProbedConnection)
           /\ \A c \in 1..Len(cons) : c # ProbedConnection => cons'[c] = cons[c]
           /\ connections' =
                  SelectSeq(connections, LAMBDA e : e.connection # ProbedConnection)
           /\ servers' = servers
           /\ pc' = "discover"
           /\ i' = i + 1
           /\ error_message' = NoError

\* Discovery leaves its loop only from behind the last entry of the list.
DiscoveryEndsBehindList ==
    pc = "discover" /\ pc' = "rs_select" => i > count

\* The type the replica set path filters with, and a registered connection
\* of the caller's auth pool that passes it.
FilterType ==
    IF "WRITE" \in connection_flags THEN "Primary" ELSE servers.read_pref.type

CandidateRemains ==
    \E k \in 1..Len(connections) :
        /\ (Len(connections[k].hash) = 2) = servers.server[1].cred
        /\ TypeMatches(FilterType, cons[connections[k].connection].type)

\* C19: an ismaster error on one entry is not fatal: discovery deregisters
\* that entry's connection alone and goes on to the remaining entries; the
\* acquisition then returns a connection whenever a candidate that passes
\* selection is left in the registry, and what the caller gets as error
\* message is nothing or "No candidate servers found", never the ismaster
\* error.
C19_ErrorNotFatal ==
    /\ [][IsmasterErrorStep /\ DiscoveryEndsBehindList]_vars
    /\ [](pc = "return" /\ servers.con_type = "REPLSET" /\ hist.selected /\ count >= 1
            => /\ CandidateRemains => con # NULL /\ Registered(con)
               /\ error_message = IF con = NULL THEN NoCandidates ELSE NoError)

\* The last ismaster of a discovery failed and destroyed a connection, and
\* the acquisition still returns a connection.
C19_Witness ==
    /\ Returned
    /\ servers.con_type = "REPLSET"
    /\ res = 0
    /\ hist.disc_killed # {}
    /\ count = 2

\* C20: when the seeds have pairwise distinct hashes (here: the leading
\* entries of the list, as many as a caller may pass, all differ), the server
\* list never holds two entries with the same hash during or after
\* discovery.
C20_Claim ==
    /\ pc \in {"discover", "hosts", "rs_select"}
    /\ \A k, l \in 1..Min({count, env.max_seeds}) :
          k # l => servers.server[k] # servers.server[l]
    => \A k, l \in 1..count :
          k # l => mongo_server_create_hash(servers.server[k])
                     # mongo_server_create_hash(servers.server[l])

====
